---- MODULE Spec2Model ----
(***************************************************************************)
(* Model of Engbot.py: the per-topic breadth-first vocabulary expansion    *)
(* (the loop of lines 209-257), the two Cambridge look-ups it calls, the   *)
(* quiz record builder and the final export.                               *)
(*                                                                         *)
(* The configuration (WORD_COUNT, topics, candidate_words) is chosen in    *)
(* Init and never changes; the web pages the two look-ups receive are      *)
(* chosen freshly at every call.                                           *)
(***************************************************************************)
EXTENDS Integers, Sequences, FiniteSets, TLC

VARIABLES
    WORD_COUNT,         \* target total vocabulary size (line 8)
    topics,             \* ordered list of topic names (lines 20-26)
    candidate_words,    \* topic name -> seed list (lines 32-58)
    used_words,         \* the global seen set (line 60)
    quiz_items,         \* line 61
    thesaurus_items,    \* line 62
    definitions_items,  \* line 63
    pc,                 \* "for" | "while" | "done": position in lines 209-283
    topic_idx,          \* index in topics of the topic of the for loop (0: none yet)
    queue,              \* the topic's frontier (line 211)
    topic_used_words,   \* line 212
    pbar_n,             \* pbar.n (line 256)
    exported,           \* what the three sinks received (lines 266-280), <<>> before
    info_calls,         \* word -> number of calls of scrape_cambridge_info
    thes_calls,         \* word -> number of calls of scrape_cambridge_thesaurus
    history,            \* one entry per executed loop body (lines 218-257), in order
    popped,             \* every queue.pop(0) of the run (line 215), in order
    outcome             \* "running", then what the last log line reports (line 283)

vars == <<WORD_COUNT, topics, candidate_words, used_words, quiz_items,
          thesaurus_items, definitions_items, pc, topic_idx, queue,
          topic_used_words, pbar_n, exported, info_calls, thes_calls, history,
          popped, outcome>>

config == <<WORD_COUNT, topics, candidate_words>>

-----------------------------------------------------------------------------
(* Bounds of the model *)

MaxTopics == 2          \* at most this many topics

(* The words of the model and the target sizes a run can be configured with *)
Words == {"a", "b", "c"}
WordCounts == {-1, 0, 1, 2, 11}

(* The topic names, and the seed dictionaries a run can be configured with; *)
(* a topic without an entry has no seeds (line 211).                        *)
TopicNames == <<"T1", "T2", "T3", "T4">>
SeedTables == {[t \in {"T1", "T2"} |-> IF t = "T1" THEN <<"a", "b">> ELSE <<"b", "c">>]}

(* The title attributes of the related-word links a dictionary page can     *)
(* carry: capitalised, padded, empty and repeated titles, and more than     *)
(* five links.                                                              *)
RawTitleLists ==
    {<< >>, <<"b">>, <<" c">>, <<"A", "b">>, <<"b", " c">>, <<" c", "b">>,
     <<" c", " c">>, <<"", " c">>, <<"b", " c", "b", " c", "b", " c">>}
(* The texts of the definition blocks of a page *)
RawDefLists == {<< >>, <<"">>, <<"def-a">>}
(* The span texts of the synonym and antonym items of a thesaurus page *)
RawThesPages == {[syn_spans |-> << >>, ant_spans |-> << >>],
                 [syn_spans |-> <<"S", "s">>, ant_spans |-> << >>],
                 [syn_spans |-> << >>, ant_spans |-> <<"t", "">>]}

-----------------------------------------------------------------------------
(* Helpers for Python's list and string operations *)

SeqToSet(s) == {s[i] : i \in 1..Len(s)}

(* str.strip() and str.lower() on the strings of the model *)
Strip(s) == IF s = " c" THEN "c" ELSE s
Lower(s) == IF s = "A" THEN "a" ELSE IF s = "S" THEN "s" ELSE s

(* sep.join(list) *)
RECURSIVE Join(_, _)
Join(sep, s) ==
    IF s = << >> THEN ""
    ELSE IF Len(s) = 1 THEN s[1]
    ELSE s[1] \o sep \o Join(sep, Tail(s))

(* list[:n] *)
Take(s, n) == SubSeq(s, 1, IF Len(s) < n THEN Len(s) ELSE n)

-----------------------------------------------------------------------------
(* The lexical provider: what a request can return *)

(* A response to the dictionary request of line 82: ok is FALSE when the    *)
(* request raised (no page) or the status was not 200 (an error page, which *)
(* may carry links and text); otherwise the page carries the titles of the  *)
(* related-word links and the texts of the definition blocks.               *)
InfoResponses ==
    {[ok |-> FALSE, titles |-> << >>, defs |-> << >>],
     [ok |-> FALSE, titles |-> <<"b", " c">>, defs |-> <<"def-a">>]} \cup
    {[ok |-> TRUE, titles |-> t, defs |-> d] : t \in RawTitleLists, d \in RawDefLists}

(* A response to the thesaurus request of line 128 *)
ThesResponses ==
    {[ok |-> FALSE, syn_spans |-> << >>, ant_spans |-> << >>],
     [ok |-> FALSE, syn_spans |-> <<"s">>, ant_spans |-> <<"t">>]} \cup
    {[ok |-> TRUE, syn_spans |-> p.syn_spans, ant_spans |-> p.ant_spans] :
        p \in RawThesPages}

(* NotInUsed, with the test always passing *)
NotInUsedAlways(w, used) == TRUE

(* Lines 101 and 226: w not in used_words *)
NotInUsed(w, used) == w \notin used

(* Lines 97-102: the related words of a page, given the seen set at the call *)
RECURSIVE RelatedFrom(_, _, _)
RelatedFrom(titles, word, used) ==
    IF titles = << >> THEN << >>
    ELSE LET candidate_word == Lower(Strip(Head(titles)))
             rest == RelatedFrom(Tail(titles), word, used)
         IN  IF candidate_word # "" /\ NotInUsed(candidate_word, used)
                /\ candidate_word # Lower(word)
             THEN <<candidate_word>> \o rest
             ELSE rest

(* Lines 109-112: the non-empty definition texts *)
RECURSIVE DefinitionsFrom(_)
DefinitionsFrom(defs) ==
    IF defs = << >> THEN << >>
    ELSE IF Head(defs) # "" THEN <<Head(defs)>> \o DefinitionsFrom(Tail(defs))
    ELSE DefinitionsFrom(Tail(defs))

(* scrape_cambridge_info, with the status of the response ignored *)
scrape_cambridge_info_any_status(word, response, used) ==
    [related |-> RelatedFrom(response.titles, word, used),
     definitions |-> DefinitionsFrom(response.defs)]

(* Lines 69-114 *)
scrape_cambridge_info(word, response, used) ==
    IF ~response.ok
    THEN [related |-> << >>, definitions |-> << >>]
    ELSE [related |-> RelatedFrom(response.titles, word, used),
          definitions |-> DefinitionsFrom(response.defs)]

(* Lines 144-151 and 161-168: lower-cased span texts, first occurrences only *)
RECURSIVE SpanWords(_, _)
SpanWords(spans, acc) ==
    IF spans = << >> THEN acc
    ELSE LET candidate_word == Lower(Strip(Head(spans)))
         IN  IF candidate_word # "" /\ candidate_word \notin SeqToSet(acc)
             THEN SpanWords(Tail(spans), Append(acc, candidate_word))
             ELSE SpanWords(Tail(spans), acc)

(* Lines 116-172 *)
scrape_cambridge_thesaurus(word, response) ==
    IF ~response.ok
    THEN [synonyms |-> << >>, antonyms |-> << >>]
    ELSE [synonyms |-> SpanWords(response.syn_spans, << >>),
          antonyms |-> SpanWords(response.ant_spans, << >>)]

-----------------------------------------------------------------------------
(* The record builders *)

(* PadOptions, with the empty strings put in front *)
RECURSIVE PadOptionsFront(_)
PadOptionsFront(options) ==
    IF Len(options) < 5 THEN PadOptionsFront(<<"">> \o options) ELSE options

(* Lines 186-187: pad the option list with empty strings up to five entries *)
RECURSIVE PadOptions(_)
PadOptions(options) ==
    IF Len(options) < 5 THEN PadOptions(Append(options, "")) ELSE options

(* related_synonyms_after, with the options being the list itself *)
related_synonyms_padded(related_synonyms) ==
    IF related_synonyms = << >> THEN related_synonyms ELSE PadOptions(related_synonyms)

(* Lines 185-187: options is a slice, a new list, so the list passed to    *)
(* create_quiz_item is after the call what it was before                   *)
related_synonyms_after(related_synonyms) == related_synonyms

(* Lines 174-202. The result is << >> for None and <<item>> otherwise. *)
create_quiz_item(topic, candidate_word, related_synonyms) ==
    IF related_synonyms = << >> THEN << >>
    ELSE LET correct == related_synonyms[1]
             options == PadOptions(Take(related_synonyms, 5))
         IN  <<[Question_Text |-> "Which of the following is a synonym for '"
                                   \o candidate_word \o "'?",
                Question_Type |-> "Multiple Choice",
                Option_1 |-> options[1],
                Option_2 |-> options[2],
                Option_3 |-> options[3],
                Option_4 |-> options[4],
                Option_5 |-> options[5],
                Correct_Answer |-> "1",
                Time_in_seconds |-> "30",
                Image_Link |-> "",
                Answer_explanation |-> "The word '" \o correct
                                   \o "' is a synonym for '" \o candidate_word
                                   \o "' (Topic: " \o topic \o ")."]>>

(* ThesaurusItem, requiring both lists to be non-empty *)
ThesaurusItemBoth(topic, candidate, syns, ants) ==
    IF syns # << >> /\ ants # << >>
    THEN <<[Word |-> candidate, Topic |-> topic,
            Synonyms |-> Join(", ", syns), Antonyms |-> Join(", ", ants)]>>
    ELSE << >>

(* Lines 239-245. << >> when both lists are empty. *)
ThesaurusItem(topic, candidate, syns, ants) ==
    IF syns # << >> \/ ants # << >>
    THEN <<[Word |-> candidate, Topic |-> topic,
            Synonyms |-> Join(", ", syns), Antonyms |-> Join(", ", ants)]>>
    ELSE << >>

(* Lines 248-254. << >> when there is no definition. *)
DefinitionsItem(topic, candidate, definitions) ==
    IF definitions # << >>
    THEN <<[Word |-> candidate, Topic |-> topic,
            Definition |-> Join(" | ", definitions)]>>
    ELSE << >>

-----------------------------------------------------------------------------
(* The traversal *)

(* Line 214: the literal 5 the target size is divided by *)
TOPIC_DIVISOR == 5

(* QuotaOpen, with <= for < *)
QuotaOpenInclusive(n) == n * TOPIC_DIVISOR <= WORD_COUNT

(* Line 214: topic_used_words < (WORD_COUNT/5), a true division:           *)
(* n < WORD_COUNT/5 exactly when 5*n < WORD_COUNT.                         *)
QuotaOpen(n) == n * TOPIC_DIVISOR < WORD_COUNT

(* Line 214: the condition of the while loop *)
LoopCond == queue # << >> /\ QuotaOpen(topic_used_words)

(* Line 211: candidate_words.get(topic, []).copy() *)
SeedsOf(topic) ==
    IF topic \in DOMAIN candidate_words THEN candidate_words[topic] ELSE << >>

(* TopicAt, with the topics taken from the end of the list *)
TopicAtReversed(i) == topics[Len(topics) + 1 - i]

(* Line 209: the topic of the i-th iteration of `for topic in topics` *)
TopicAt(i) == topics[i]

(* SeedsAfterQueueChange, with the queue being the seed list itself *)
SeedsAliased(q) ==
    IF TopicAt(topic_idx) \in DOMAIN candidate_words
    THEN [candidate_words EXCEPT ![TopicAt(topic_idx)] = q]
    ELSE candidate_words

(* Line 211: the queue is a copy of the seed list, so candidate_words is   *)
(* what it was when the queue has changed to q (lines 215, 230)            *)
SeedsAfterQueueChange(q) == candidate_words

(* Seen, with the membership test lost *)
SeenNever(candidate) == FALSE

(* Line 216: candidate in used_words *)
Seen(candidate) == candidate \in used_words

(* Extend, with the new words put in front of the queue *)
ExtendFront(q, new_related) == new_related \o q

(* Line 230: queue.extend(new_related) *)
Extend(q, new_related) == q \o new_related

(* Line 226: [w for w in related_words if w not in used_words] *)
NewRelated(related_words, used) ==
    SelectSeq(related_words, LAMBDA w : NotInUsed(w, used))

(* Whether a page that was parsed links to the word itself in another      *)
(* letter case (kept in history as an observation of the input)            *)
CaseLink(response, word) ==
    /\ response.ok
    /\ \E t \in SeqToSet(response.titles) :
         Strip(t) # word /\ Lower(Strip(t)) = Lower(word)

(* The configurations: a target size, up to MaxTopics topics and their seeds *)
Init ==
    /\ WORD_COUNT \in WordCounts
    /\ \E n \in 0..MaxTopics : topics = SubSeq(TopicNames, 1, n)
    /\ candidate_words \in SeedTables
    /\ used_words = {}
    /\ quiz_items = << >>
    /\ thesaurus_items = << >>
    /\ definitions_items = << >>
    /\ pc = "for"
    /\ topic_idx = 0
    /\ queue = << >>
    /\ topic_used_words = 0
    /\ pbar_n = 0
    /\ exported = << >>
    /\ info_calls = [w \in Words |-> 0]
    /\ thes_calls = [w \in Words |-> 0]
    /\ history = << >>
    /\ popped = << >>
    /\ outcome = "running"

(* StartTopic, with the seen set reset for every topic *)
StartTopicReset ==
    /\ pc = "for"
    /\ topic_idx < Len(topics)
    /\ topic_idx' = topic_idx + 1
    /\ queue' = SeedsOf(TopicAt(topic_idx + 1))
    /\ topic_used_words' = 0
    /\ used_words' = {}
    /\ pc' = "while"
    /\ UNCHANGED <<config, quiz_items, thesaurus_items,
                   definitions_items, pbar_n, exported, info_calls, thes_calls,
                   history, popped, outcome>>

(* StartTopic, with the words left in the frontier kept for the next topic *)
StartTopicCarry ==
    /\ pc = "for"
    /\ topic_idx < Len(topics)
    /\ topic_idx' = topic_idx + 1
    /\ queue' = queue \o SeedsOf(TopicAt(topic_idx + 1))
    /\ topic_used_words' = 0
    /\ pc' = "while"
    /\ UNCHANGED <<config, used_words, quiz_items, thesaurus_items,
                   definitions_items, pbar_n, exported, info_calls, thes_calls,
                   history, popped, outcome>>

(* Lines 209-212: the for loop takes the next topic *)
StartTopic ==
    /\ pc = "for"
    /\ topic_idx < Len(topics)
    /\ topic_idx' = topic_idx + 1
    /\ queue' = SeedsOf(TopicAt(topic_idx + 1))
    /\ topic_used_words' = 0
    /\ pc' = "while"
    /\ UNCHANGED <<config, used_words, quiz_items, thesaurus_items,
                   definitions_items, pbar_n, exported, info_calls, thes_calls,
                   history, popped, outcome>>

(* SkipSeen, with the word read but not popped *)
SkipSeenNoPop ==
    /\ pc = "while"
    /\ LoopCond
    /\ Seen(Head(queue))
    /\ UNCHANGED vars

(* SkipSeen, with the discarded word counted against the budget *)
SkipSeenCounted ==
    /\ pc = "while"
    /\ LoopCond
    /\ Seen(Head(queue))
    /\ queue' = Tail(queue)
    /\ topic_used_words' = topic_used_words + 1
    /\ popped' = Append(popped, [topic |-> TopicAt(topic_idx), word |-> Head(queue)])
    /\ candidate_words' = SeedsAfterQueueChange(queue')
    /\ UNCHANGED <<WORD_COUNT, topics, used_words, quiz_items, thesaurus_items,
                   definitions_items, pc, topic_idx, pbar_n,
                   exported, info_calls, thes_calls, history, outcome>>

(* Lines 214-217: the popped word is already in used_words *)
SkipSeen ==
    /\ pc = "while"
    /\ LoopCond
    /\ Seen(Head(queue))
    /\ queue' = Tail(queue)
    /\ popped' = Append(popped, [topic |-> TopicAt(topic_idx), word |-> Head(queue)])
    /\ candidate_words' = SeedsAfterQueueChange(queue')
    /\ UNCHANGED <<WORD_COUNT, topics, used_words, quiz_items, thesaurus_items,
                   definitions_items, pc, topic_idx, topic_used_words, pbar_n,
                   exported, info_calls, thes_calls, history, outcome>>

(* ProcessWord, with the rest of the iteration given up when the thesaurus *)
(* look-up fails                                                            *)
ProcessWordThesAbort ==
    /\ pc = "while"
    /\ LoopCond
    /\ ~Seen(Head(queue))
    /\ \E info_response \in InfoResponses, thes_response \in ThesResponses :
         LET topic == TopicAt(topic_idx)
             candidate == Head(queue)
             used == used_words \cup {candidate}
             info == scrape_cambridge_info(candidate, info_response, used)
             new_related == NewRelated(info.related, used)
             thes == scrape_cambridge_thesaurus(candidate, thes_response)
         IN  /\ used_words' = used
             /\ topic_used_words' = topic_used_words + 1
             /\ queue' = Extend(Tail(queue), new_related)
             /\ candidate_words' = SeedsAfterQueueChange(queue')
             /\ quiz_items' = quiz_items \o create_quiz_item(topic, candidate, new_related)
             /\ thesaurus_items' = thesaurus_items
                    \o ThesaurusItem(topic, candidate, thes.synonyms, thes.antonyms)
             /\ definitions_items' =
                    IF thes_response.ok
                    THEN definitions_items
                             \o DefinitionsItem(topic, candidate, info.definitions)
                    ELSE definitions_items
             /\ pbar_n' = Cardinality(used)
             /\ info_calls' = [info_calls EXCEPT ![candidate] = @ + 1]
             /\ thes_calls' = [thes_calls EXCEPT ![candidate] = @ + 1]
             /\ history' = Append(history,
                    [topic |-> topic, word |-> candidate,
                     info_ok |-> info_response.ok,
                     case_link |-> CaseLink(info_response, candidate),
                     related |-> info.related,
                     new_related |-> new_related,
                     new_related_after |-> related_synonyms_after(new_related),
                     definitions |-> info.definitions,
                     thes_ok |-> thes_response.ok, synonyms |-> thes.synonyms,
                     antonyms |-> thes.antonyms])
             /\ popped' = Append(popped, [topic |-> topic, word |-> candidate])
    /\ UNCHANGED <<WORD_COUNT, topics, pc, topic_idx, exported, outcome>>

(* Lines 214-257: the popped word is new; one whole iteration *)
ProcessWord ==
    /\ pc = "while"
    /\ LoopCond
    /\ ~Seen(Head(queue))
    /\ \E info_response \in InfoResponses, thes_response \in ThesResponses :
         LET topic == TopicAt(topic_idx)
             candidate == Head(queue)
             used == used_words \cup {candidate}
             info == scrape_cambridge_info(candidate, info_response, used)
             new_related == NewRelated(info.related, used)
             thes == scrape_cambridge_thesaurus(candidate, thes_response)
         IN  /\ used_words' = used
             /\ topic_used_words' = topic_used_words + 1
             /\ queue' = Extend(Tail(queue), new_related)
             /\ candidate_words' = SeedsAfterQueueChange(queue')
             /\ quiz_items' = quiz_items \o create_quiz_item(topic, candidate, new_related)
             /\ thesaurus_items' = thesaurus_items
                    \o ThesaurusItem(topic, candidate, thes.synonyms, thes.antonyms)
             /\ definitions_items' = definitions_items
                    \o DefinitionsItem(topic, candidate, info.definitions)
             /\ pbar_n' = Cardinality(used)
             /\ info_calls' = [info_calls EXCEPT ![candidate] = @ + 1]
             /\ thes_calls' = [thes_calls EXCEPT ![candidate] = @ + 1]
             /\ history' = Append(history,
                    [topic |-> topic, word |-> candidate,
                     info_ok |-> info_response.ok,
                     case_link |-> CaseLink(info_response, candidate),
                     related |-> info.related,
                     new_related |-> new_related,
                     new_related_after |-> related_synonyms_after(new_related),
                     definitions |-> info.definitions,
                     thes_ok |-> thes_response.ok, synonyms |-> thes.synonyms,
                     antonyms |-> thes.antonyms])
             /\ popped' = Append(popped, [topic |-> topic, word |-> candidate])
    /\ UNCHANGED <<WORD_COUNT, topics, pc, topic_idx, exported, outcome>>

(* Line 214: the while condition is false, the for loop goes on *)
EndTopic ==
    /\ pc = "while"
    /\ ~LoopCond
    /\ pc' = "for"
    /\ UNCHANGED <<config, used_words, quiz_items, thesaurus_items,
                   definitions_items, topic_idx, queue, topic_used_words, pbar_n,
                   exported, info_calls, thes_calls, history, popped, outcome>>

(* Lines 259-283: after the last topic the three collections go to the sinks *)
Export ==
    /\ pc = "for"
    /\ topic_idx = Len(topics)
    /\ exported' = <<quiz_items, thesaurus_items, definitions_items>>
    /\ pc' = "done"
    /\ outcome' = "completed successfully"
    /\ UNCHANGED <<config, used_words, quiz_items, thesaurus_items,
                   definitions_items, topic_idx, queue, topic_used_words, pbar_n,
                   info_calls, thes_calls, history, popped>>

Next == StartTopic \/ SkipSeen \/ ProcessWord \/ EndTopic \/ Export

Spec == Init /\ [][Next]_vars

(* The loops are sequential code: every enabled step is eventually taken *)
FairSpec == Spec /\ WF_vars(Next)

TypeOK ==
    /\ used_words \subseteq Words
    /\ pc \in {"for", "while", "done"}
    /\ topic_idx \in 0..Len(topics)

-----------------------------------------------------------------------------
(* Notions the properties are stated with *)

(* The entries of history (the processed words) under a topic *)
ProcessedUnder(t) == SelectSeq(history, LAMBDA e : e.topic = t)

(* The words processed so far *)
ProcessedWords == {history[i].word : i \in 1..Len(history)}

(* The question text of the quiz record of a word (line 189) *)
QuestionFor(w) == "Which of the following is a synonym for '" \o w \o "'?"

QuizRecordsOf(w) == SelectSeq(quiz_items, LAMBDA r : r.Question_Text = QuestionFor(w))
ThesaurusRecordsOf(w) == SelectSeq(thesaurus_items, LAMBDA r : r.Word = w)
DefinitionRecordsOf(w) == SelectSeq(definitions_items, LAMBDA r : r.Word = w)

-----------------------------------------------------------------------------
(* C1: for a positive target size, the number of words processed under any *)
(* topic is at all times at most floor(target size / number of topics).    *)
C1_BudgetFloor ==
    WORD_COUNT > 0 =>
        \A i \in 1..Len(topics) :
            Len(ProcessedUnder(topics[i])) <= WORD_COUNT \div Len(topics)

(* C2: no word is processed twice in the whole run, and each of the three  *)
(* collections holds at most one record for any word.                      *)
C2_Dedup ==
    /\ \A i, j \in 1..Len(history) : history[i].word = history[j].word => i = j
    /\ \A w \in Words :
         /\ Len(QuizRecordsOf(w)) <= 1
         /\ Len(ThesaurusRecordsOf(w)) <= 1
         /\ Len(DefinitionRecordsOf(w)) <= 1

(* A run is over in which a word was popped again after it had been        *)
(* processed under an earlier topic, and every collection has two records. *)
C2_Witness ==
    /\ pc = "done"
    /\ \E i, j \in 1..Len(popped) :
         i < j /\ popped[i].word = popped[j].word /\ popped[i].topic # popped[j].topic
    /\ Len(quiz_items) >= 2 /\ Len(thesaurus_items) >= 2 /\ Len(definitions_items) >= 2

(* The provider of the end-to-end scenario: a has related [c] and          *)
(* definitions [def-a], b has nothing, no word has synonyms or antonyms.   *)
ScenarioProvider ==
    \A i \in 1..Len(history) :
        LET e == history[i]
        IN  /\ e.synonyms = << >> /\ e.antonyms = << >>
            /\ e.word = "a" => e.related = <<"c">> /\ e.definitions = <<"def-a">>
            /\ e.word = "b" => e.related = << >> /\ e.definitions = << >>

(* C3: one topic T1 with seeds [a, b] and target size 2: with the scenario *)
(* provider the run ends with seen set {a, b}, one quiz record (for a,     *)
(* correct option c), one definition record (a, def-a), no thesaurus       *)
(* record, and c never processed.                                          *)
C3_EndToEnd ==
    ( /\ pc = "done"
      /\ topics = <<"T1">> /\ SeedsOf("T1") = <<"a", "b">> /\ WORD_COUNT = 2
      /\ ScenarioProvider )
    => /\ used_words = {"a", "b"}
       /\ Len(quiz_items) = 1
       /\ quiz_items[1].Question_Text = QuestionFor("a")
       /\ quiz_items[1].Option_1 = "c"
       /\ quiz_items[1].Correct_Answer = "1"
       /\ definitions_items = <<[Word |-> "a", Topic |-> "T1", Definition |-> "def-a"]>>
       /\ thesaurus_items = << >>
       /\ "c" \notin ProcessedWords

(* C4: under the sequential execution of the loops, every run finishes the *)
(* last topic and hands the three collections to the sinks.                *)
C4_Termination ==
    <>(pc = "done" /\ topic_idx = Len(topics)
       /\ exported = <<quiz_items, thesaurus_items, definitions_items>>)

(* A finished run of two topics with a failed look-up and a look-up that   *)
(* returned new words.                                                     *)
C4_Witness ==
    /\ pc = "done" /\ Len(topics) = 2
    /\ exported = <<quiz_items, thesaurus_items, definitions_items>>
    /\ \E i \in 1..Len(history) : ~history[i].info_ok
    /\ \E i \in 1..Len(history) : history[i].new_related # << >>

(* The words popped under a topic, and the words enqueued under it: its    *)
(* seeds followed by the new related words of its processed words.         *)
RECURSIVE WordsOf(_)
WordsOf(entries) ==
    IF entries = << >> THEN << >> ELSE <<Head(entries).word>> \o WordsOf(Tail(entries))

RECURSIVE Discovered(_)
Discovered(entries) ==
    IF entries = << >> THEN << >>
    ELSE Head(entries).new_related \o Discovered(Tail(entries))

PoppedUnder(t) == WordsOf(SelectSeq(popped, LAMBDA e : e.topic = t))
EnqueuedUnder(t) == SeedsOf(t) \o Discovered(ProcessedUnder(t))

IsPrefix(s, t) == Len(s) <= Len(t) /\ SubSeq(t, 1, Len(s)) = s

BothFailed(e) == ~e.info_ok /\ ~e.thes_ok

(* C6: a word both of whose look-ups failed is in the seen set, is counted *)
(* in its topic's processed count, has no record in any collection, and    *)
(* the run goes on: until the export some step is always possible.         *)
C6_SoftFail ==
    /\ \A i \in 1..Len(history) :
         BothFailed(history[i]) =>
            /\ history[i].word \in used_words
            /\ QuizRecordsOf(history[i].word) = << >>
            /\ ThesaurusRecordsOf(history[i].word) = << >>
            /\ DefinitionRecordsOf(history[i].word) = << >>
    /\ topic_idx >= 1 => topic_used_words = Len(ProcessedUnder(topics[topic_idx]))
    /\ pc # "done" => ENABLED Next

(* Both look-ups of a word failed and a later word was processed *)
C6_Witness ==
    \E i, j \in 1..Len(history) :
        /\ i < j /\ BothFailed(history[i])
        /\ history[i].topic = history[j].topic
        /\ topic_used_words >= 2

(* C7: for every processed word there is a quiz record iff its new related *)
(* list is non-empty, a thesaurus record iff its synonym list or its       *)
(* antonym list is non-empty, a definition record iff its definition list  *)
(* is non-empty; words not processed have no record.                       *)
C7_RecordOmission ==
    /\ \A i \in 1..Len(history) :
         LET e == history[i]
         IN  /\ QuizRecordsOf(e.word) # << >> <=> e.new_related # << >>
             /\ ThesaurusRecordsOf(e.word) # << >>
                    <=> (e.synonyms # << >> \/ e.antonyms # << >>)
             /\ DefinitionRecordsOf(e.word) # << >> <=> e.definitions # << >>
    /\ Len(quiz_items) + Len(thesaurus_items) + Len(definitions_items)
           <= 3 * Len(history)

(* One processed word has only antonyms and new related words, another has *)
(* only synonyms and a definition, a third nothing though its look-ups     *)
(* succeeded.                                                              *)
C7_Witness ==
    \E i, j, k \in 1..Len(history) :
        /\ history[i].new_related # << >> /\ history[i].definitions = << >>
        /\ history[i].synonyms = << >> /\ history[i].antonyms # << >>
        /\ history[j].new_related = << >> /\ history[j].definitions # << >>
        /\ history[j].synonyms # << >> /\ history[j].antonyms = << >>
        /\ history[k].info_ok /\ history[k].thes_ok
        /\ history[k].new_related = << >> /\ history[k].definitions = << >>
        /\ history[k].synonyms = << >> /\ history[k].antonyms = << >>

(* C8: the seen set is at all times the set of the words popped and        *)
(* accepted so far; it changes only by gaining the word popped in that     *)
(* step, and never loses a word, also when the next topic starts.          *)
C8_SeenSet ==
    /\ [](used_words = ProcessedWords)
    /\ [][ /\ used_words \subseteq used_words'
           /\ used_words' # used_words =>
                /\ pc = "while" /\ queue # << >>
                /\ used_words' = used_words \cup {Head(queue)}
                /\ Len(popped') = Len(popped) + 1
                /\ popped'[Len(popped')].word = Head(queue) ]_vars

(* The second topic runs, the seen set holds words of the first topic, and *)
(* a discovered word waits in the frontier without being in the seen set.  *)
C8_Witness ==
    /\ topic_idx = 2 /\ pc = "while"
    /\ \E i \in 1..Len(history) : history[i].topic = "T1" /\ history[i].word \in used_words
    /\ \E k \in 1..Len(queue), i \in 1..Len(history) :
         /\ history[i].topic = "T2"
         /\ queue[k] \in SeqToSet(history[i].new_related)
         /\ queue[k] \notin used_words

(* The state in which the next pop yields a word of the seen set *)
SeenAtFront == pc = "while" /\ LoopCond /\ Head(queue) \in used_words

(* C9: popping a word of the seen set changes the frontier only (and the   *)
(* record of pops): seen set, processed count, collections and look-up     *)
(* counts stay; no word is looked up twice by either operation.            *)
C9_SkipFrame ==
    /\ [][ SeenAtFront =>
             /\ queue' = Tail(queue)
             /\ UNCHANGED <<used_words, topic_used_words, quiz_items,
                            thesaurus_items, definitions_items, info_calls,
                            thes_calls, history, pbar_n>> ]_vars
    /\ [](\A w \in Words : info_calls[w] <= 1 /\ thes_calls[w] <= 1)

(* A word was popped twice under one topic and once more under the next,   *)
(* and was looked up once.                                                 *)
C9_Witness ==
    \E i, j, k \in 1..Len(popped) :
        /\ i < j /\ j < k
        /\ popped[i].word = popped[j].word /\ popped[j].word = popped[k].word
        /\ popped[i].topic = popped[j].topic /\ popped[j].topic # popped[k].topic
        /\ info_calls[popped[i].word] = 1 /\ thes_calls[popped[i].word] = 1

(* A configuration the specification calls an error *)
BadConfig == topics = << >> \/ WORD_COUNT <= 0

(* C10 as stated: a run with an empty topic list or a non-positive target  *)
(* size ends with a configuration error, before any pop or look-up.        *)
C10_ConfigError ==
    (BadConfig /\ pc = "done") =>
        /\ outcome = "ConfigurationError"
        /\ popped = << >>
        /\ \A w \in Words : info_calls[w] = 0 /\ thes_calls[w] = 0

(* C10 as amended: such a run pops no word and issues no look-up, and it   *)
(* ends as any other run: three empty collections go to the sinks and the  *)
(* last line reports success.                                              *)
C10_EmptyRun ==
    BadConfig =>
        /\ popped = << >>
        /\ \A w \in Words : info_calls[w] = 0 /\ thes_calls[w] = 0
        /\ pc = "done" =>
             /\ outcome = "completed successfully"
             /\ exported = << << >>, << >>, << >> >>

(* A run over two topics with seeds and a target size of 0 is over *)
C10_Witness ==
    /\ pc = "done" /\ WORD_COUNT = 0 /\ Len(topics) = 2
    /\ SeedsOf("T1") # << >>
    /\ exported = << << >>, << >>, << >> >>

(* The five options of a quiz record, in order *)
OptionsOf(r) == <<r.Option_1, r.Option_2, r.Option_3, r.Option_4, r.Option_5>>

(* C11: the quiz record of a processed word with a non-empty new related   *)
(* list has as options 1 to 5 the first five new related words in their    *)
(* order, then empty strings; its correct answer is "1" and its option 1   *)
(* is the first new related word.                                          *)
C11_QuizOptions ==
    \A i \in 1..Len(history) :
        LET e == history[i]
            rs == QuizRecordsOf(e.word)
        IN  e.new_related # << >> =>
              /\ Len(rs) = 1
              /\ \A k \in 1..5 :
                   OptionsOf(rs[1])[k] =
                       IF k <= Len(e.new_related) THEN e.new_related[k] ELSE ""
              /\ rs[1].Correct_Answer = "1"
              /\ rs[1].Option_1 = e.new_related[1]

(* One quiz record was built from more than five new related words, the   *)
(* next from a single one.                                                 *)
C11_Witness ==
    \E i, j \in 1..Len(history) :
        /\ Len(history[i].new_related) > 5
        /\ QuizRecordsOf(history[i].word) # << >>
        /\ Len(history[j].new_related) = 1
        /\ QuizRecordsOf(history[j].word) # << >>
        /\ Len(quiz_items) = 2

(* The words processed up to and including the i-th entry of history: the  *)
(* seen set when the new related list of that entry was computed.          *)
SeenAt(i) == {history[j].word : j \in 1..i}

(* C12: the new related list of a processed word holds no word that was in *)
(* the seen set at that moment, so no such word is appended to a frontier; *)
(* in particular it never holds the word itself, also when the page links  *)
(* to the word in another letter case.                                     *)
C12_NoSeenInNewRelated ==
    \A i \in 1..Len(history) :
        LET e == history[i]
        IN  /\ SeqToSet(e.new_related) \cap SeenAt(i) = {}
            /\ e.word \notin SeqToSet(e.related)
            /\ e.word \notin SeqToSet(e.new_related)

(* The page of a word links to the word in another letter case and to a    *)
(* new word, which was enqueued.                                           *)
C12_Witness ==
    \E i \in 1..Len(history) :
        /\ history[i].info_ok /\ history[i].case_link
        /\ history[i].new_related # << >>
        /\ queue # << >>

(* An entry of history whose primary look-up succeeded and whose thesaurus *)
(* look-up failed                                                          *)
OnlyThesFailed(e) == e.info_ok /\ ~e.thes_ok

(* C13: a word whose thesaurus look-up failed after a successful primary   *)
(* look-up keeps its quiz record (if it has new related words) and its     *)
(* definition record (if it has definitions), up to the collections handed *)
(* to the sinks; it has no thesaurus record.                               *)
C13_ThesFailureKeepsRecords ==
    \A i \in 1..Len(history) :
        LET e == history[i]
        IN  OnlyThesFailed(e) =>
              /\ e.new_related # << >> => Len(QuizRecordsOf(e.word)) = 1
              /\ e.definitions # << >> =>
                   /\ Len(DefinitionRecordsOf(e.word)) = 1
                   /\ DefinitionRecordsOf(e.word)[1].Topic = e.topic
              /\ ThesaurusRecordsOf(e.word) = << >>
              /\ pc = "done" =>
                   /\ e.new_related # << >> =>
                        \E k \in 1..Len(exported[1]) :
                            exported[1][k].Question_Text = QuestionFor(e.word)
                   /\ e.definitions # << >> =>
                        \E k \in 1..Len(exported[3]) : exported[3][k].Word = e.word
                   /\ \A k \in 1..Len(exported[2]) : exported[2][k].Word # e.word

(* The run is over; the thesaurus look-up of a word with new related words *)
(* and a definition had failed.                                            *)
C13_Witness ==
    /\ pc = "done"
    /\ \E i \in 1..Len(history) :
         /\ OnlyThesFailed(history[i])
         /\ history[i].new_related # << >>
         /\ history[i].definitions # << >>

(* The position of a topic in the configured list *)
TopicIndex(t) == CHOOSE k \in 1..Len(topics) : topics[k] = t

(* The topic under which a word was processed *)
TopicOfWord(w) == history[CHOOSE i \in 1..Len(history) : history[i].word = w].topic

(* C14: the topics are processed in the configured order and are not       *)
(* interleaved: the topics of the processed words never go back in the     *)
(* list, and the records of each collection are grouped by topic in that   *)
(* order.                                                                  *)
C14_TopicOrder ==
    /\ \A i, j \in 1..Len(history) :
         i < j => TopicIndex(history[i].topic) <= TopicIndex(history[j].topic)
    /\ \A i \in 1..Len(history) : TopicIndex(history[i].topic) <= topic_idx
    /\ \A i, j \in 1..Len(thesaurus_items) :
         i < j => TopicIndex(thesaurus_items[i].Topic)
                     <= TopicIndex(thesaurus_items[j].Topic)
    /\ \A i, j \in 1..Len(definitions_items) :
         i < j => TopicIndex(definitions_items[i].Topic)
                     <= TopicIndex(definitions_items[j].Topic)
    /\ \A i, j \in 1..Len(quiz_items), v, w \in ProcessedWords :
         ( /\ i < j
           /\ quiz_items[i].Question_Text = QuestionFor(v)
           /\ quiz_items[j].Question_Text = QuestionFor(w) )
         => TopicIndex(TopicOfWord(v)) <= TopicIndex(TopicOfWord(w))

(* Words were processed under both topics, and every collection has a      *)
(* record of each topic.                                                   *)
C14_Witness ==
    /\ Len(topics) = 2
    /\ \E i, j \in 1..Len(history) : history[i].topic = "T1" /\ history[j].topic = "T2"
    /\ Len(quiz_items) >= 2
    /\ \E i, j \in 1..Len(thesaurus_items) :
         thesaurus_items[i].Topic = "T1" /\ thesaurus_items[j].Topic = "T2"
    /\ \E i, j \in 1..Len(definitions_items) :
         definitions_items[i].Topic = "T1" /\ definitions_items[j].Topic = "T2"
    /\ \E v, w \in ProcessedWords :
         /\ TopicOfWord(v) = "T1" /\ TopicOfWord(w) = "T2"
         /\ QuizRecordsOf(v) # << >> /\ QuizRecordsOf(w) # << >>

(* C15: no step changes the configured seed lists (nor the topic list),    *)
(* whatever is popped from or appended to the frontier.                    *)
C15_SeedsUnchanged ==
    [][candidate_words' = candidate_words /\ topics' = topics]_vars

(* Under the first topic words were popped and discovered words appended:  *)
(* the frontier differs from the seed list, which is as configured.        *)
C15_Witness ==
    /\ topic_idx = 1
    /\ Len(popped) >= 2
    /\ \E i \in 1..Len(history) : history[i].new_related # << >>
    /\ queue # << >> /\ queue # SeedsOf("T1")
    /\ SeedsOf("T1") = <<"a", "b">>

(* C16: for a positive target size, the size of the seen set and the       *)
(* progress counter are at all times at most the target size.              *)
C16_SeenWithinTarget ==
    WORD_COUNT > 0 =>
        /\ Cardinality(used_words) <= WORD_COUNT
        /\ pbar_n <= WORD_COUNT

(* C17: a word processed under a topic is a seed of that topic or a new    *)
(* related word of a word processed earlier under the same topic; when a   *)
(* topic starts, its frontier is its seed list, whatever the frontier of   *)
(* the topic before still held.                                            *)
C17_TopicProvenance ==
    /\ [](\A i \in 1..Len(history) :
            \/ history[i].word \in SeqToSet(SeedsOf(history[i].topic))
            \/ \E j \in 1..(i - 1) :
                 /\ history[j].topic = history[i].topic
                 /\ history[i].word \in SeqToSet(history[j].new_related))
    /\ [][topic_idx' # topic_idx => queue' = SeedsOf(topics[topic_idx'])]_vars

(* The second topic has started with its seeds while the first topic had   *)
(* left unprocessed words in its frontier when its quota was hit.          *)
C17_Witness ==
    /\ topic_idx = 2 /\ pc = "while" /\ topic_used_words = 0
    /\ queue = SeedsOf("T2")
    /\ PoppedUnder("T1") # EnqueuedUnder("T1")
    /\ \E k \in 1..Len(EnqueuedUnder("T1")) :
         EnqueuedUnder("T1")[k] \notin used_words
    /\ ~QuotaOpen(Len(ProcessedUnder("T1")))

(* C18: building a quiz record leaves the new related list as it was; the  *)
(* empty strings of the options are in the record only: no empty string is *)
(* in a new related list, in the frontier, or processed as a word.         *)
C18_PaddingStaysInRecord ==
    /\ \A i \in 1..Len(history) :
         /\ history[i].new_related_after = history[i].new_related
         /\ "" \notin SeqToSet(history[i].new_related)
         /\ history[i].word # ""
    /\ "" \notin SeqToSet(queue)
    /\ "" \notin used_words
    /\ \A i \in 1..Len(popped) : popped[i].word # ""

(* A quiz record with padded options was built, and the word it offers as  *)
(* first option is in the frontier.                                        *)
C18_Witness ==
    \E i \in 1..Len(history) :
        /\ i = Len(history) /\ pc = "while"
        /\ Len(history[i].new_related) = 1
        /\ QuizRecordsOf(history[i].word) # << >>
        /\ QuizRecordsOf(history[i].word)[1].Option_2 = ""
        /\ queue # << >> /\ queue[Len(queue)] = history[i].new_related[1]

(* A sequence without a repeated non-empty entry *)
NoRepeat(s) == \A i, j \in 1..Len(s) : (s[i] = s[j] /\ s[i] # "") => i = j

(* C19: the non-empty options of every quiz record are pairwise distinct,  *)
(* and no look-up enqueues a word twice.                                   *)
C19_DistinctOptions ==
    /\ \A k \in 1..Len(quiz_items) : NoRepeat(OptionsOf(quiz_items[k]))
    /\ \A i \in 1..Len(history) : NoRepeat(history[i].new_related)

====
